---- MODULE Spec2Model ----
(***************************************************************************)
(* A model of lasrs, a parser of LAS (Log ASCII Standard) well-log files.  *)
(*                                                                         *)
(* The program is a struct `Las { blob: String }` and a set of accessors   *)
(* that re-parse the blob on every call.  Text is modelled as a sequence   *)
(* of one-character strings; every str method and every regular            *)
(* expression of the source is an operator that computes what the Rust     *)
(* code computes (leftmost-first matching, greedy repetition, the Split    *)
(* and SplitN iterators of the regex crate, str::lines, str::trim, ...).   *)
(* A panic (expect, an index out of bounds, chunks(0)) is the result       *)
(* Panic(msg); a returned value v is the result Ok(v).                     *)
(***************************************************************************)
EXTENDS Integers, Sequences, FiniteSets, TLC

(***************************************************************************)
(* Characters and character classes                                        *)
(***************************************************************************)
UpperCase == <<"A","B","C","D","E","F","G","H","I","J","K","L","M",
               "N","O","P","Q","R","S","T","U","V","W","X","Y","Z">>
LowerCase == <<"a","b","c","d","e","f","g","h","i","j","k","l","m",
               "n","o","p","q","r","s","t","u","v","w","x","y","z">>
DigitChars == <<"0","1","2","3","4","5","6","7","8","9">>

Range(f) == {f[i] : i \in DOMAIN f}

\* \s of the regex crate and char::is_whitespace, on the model's alphabet
WhiteSpace == {" ", "\t", "\n"}
\* \d
DigitSet == Range(DigitChars)
\* \w
WordSet == Range(UpperCase) \cup Range(LowerCase) \cup DigitSet \cup {"_"}

Min(S) == CHOOSE m \in S : \A n \in S : m <= n

\* the numeric value of a digit character
DigitVal(c) == (CHOOSE i \in DOMAIN DigitChars : DigitChars[i] = c) - 1

\* char::to_lowercase
LowerChar(c) ==
    IF c \in Range(UpperCase)
    THEN LowerCase[CHOOSE i \in DOMAIN UpperCase : UpperCase[i] = c]
    ELSE c

\* str::to_lowercase
to_lowercase(s) == [i \in 1..Len(s) |-> LowerChar(s[i])]

(***************************************************************************)
(* Option and panics                                                       *)
(***************************************************************************)
None == [some |-> FALSE]
Some(v) == [some |-> TRUE, val |-> v]
unwrap_or(o, d) == IF o.some THEN o.val ELSE d

Ok(v) == [ok |-> TRUE, val |-> v]
Panic(m) == [ok |-> FALSE, msg |-> m]

\* Iterator::nth (0-based) on a collected sequence
nth(seq, n) == IF n + 1 <= Len(seq) THEN Some(seq[n + 1]) ELSE None

\* Iterator::skip(n) and Iterator::take(n)
skip(seq, n) == IF n >= Len(seq) THEN <<>> ELSE SubSeq(seq, n + 1, Len(seq))
take(seq, n) == IF n >= Len(seq) THEN seq ELSE SubSeq(seq, 1, n)

(***************************************************************************)
(* str methods                                                             *)
(***************************************************************************)
\* the index after the run of characters of class C that starts at i
RECURSIVE RunEnd(_, _, _)
RunEnd(s, i, C) ==
    IF i > Len(s) \/ s[i] \notin C THEN i ELSE RunEnd(s, i + 1, C)

\* the index before the run of characters of class C that ends at i
RECURSIVE RunStart(_, _, _)
RunStart(s, i, C) ==
    IF i < 1 \/ s[i] \notin C THEN i ELSE RunStart(s, i - 1, C)

\* str::trim
trim(s) ==
    LET a == RunEnd(s, 1, WhiteSpace)
        b == RunStart(s, Len(s), WhiteSpace)
    IN  IF a > b THEN <<>> ELSE SubSeq(s, a, b)

\* str::starts_with
starts_with(s, p) == Len(s) >= Len(p) /\ SubSeq(s, 1, Len(p)) = p

\* first occurrence of the literal pattern p in s at or after i; 0 if none
FindStr(s, p, i) ==
    LET I == {k \in i..(Len(s) - Len(p) + 1) : SubSeq(s, k, k + Len(p) - 1) = p}
    IN  IF I = {} THEN 0 ELSE Min(I)

\* str::split with a literal pattern: every piece, the trailing one included
RECURSIVE StrSplitFrom(_, _, _)
StrSplitFrom(s, p, i) ==
    LET k == FindStr(s, p, i)
    IN  IF k = 0 THEN <<SubSeq(s, i, Len(s))>>
        ELSE <<SubSeq(s, i, k - 1)>> \o StrSplitFrom(s, p, k + Len(p))

StrSplit(s, p) == StrSplitFrom(s, p, 1)

\* str::splitn(2, p): the text before the first p and the text after it
StrSplitN2(s, p) ==
    LET k == FindStr(s, p, 1)
    IN  IF k = 0 THEN <<s>>
        ELSE <<SubSeq(s, 1, k - 1), SubSeq(s, k + Len(p), Len(s))>>

\* str::lines: split on "\n"; a final empty piece is not a line
lines(s) ==
    LET ps == StrSplit(s, <<"\n">>)
    IN  IF ps[Len(ps)] = <<>> THEN SubSeq(ps, 1, Len(ps) - 1) ELSE ps

\* [T]::join for strings
RECURSIVE join(_, _)
join(ss, sep) ==
    IF ss = <<>> THEN <<>>
    ELSE IF Len(ss) = 1 THEN ss[1]
    ELSE ss[1] \o sep \o join(Tail(ss), sep)

(***************************************************************************)
(* The regex crate: a regular expression is given by the function `ends`   *)
(* on the positions of the text: ends[i] is the index after the            *)
(* leftmost-first match that starts at i, 0 when none starts there.  No    *)
(* expression of the program matches the empty string.                     *)
(***************************************************************************)
\* Regex::find_iter: the non-overlapping matches from position i on
RECURSIVE FindIter(_, _)
FindIter(ends, i) ==
    IF i > Len(ends) THEN <<>>
    ELSE IF ends[i] = 0 THEN FindIter(ends, i + 1)
    ELSE <<<<i, ends[i]>>>> \o FindIter(ends, ends[i])

\* Regex::split (regex >= 1.3.5): the text between the matches and the text
\* after the last one, also when it is empty; one empty piece for ""
RECURSIVE SplitPieces(_, _, _)
SplitPieces(s, ms, last) ==
    IF ms = <<>> THEN <<SubSeq(s, last, Len(s))>>
    ELSE <<SubSeq(s, last, ms[1][1] - 1)>> \o SplitPieces(s, Tail(ms), ms[1][2])

RegexSplit(s, ends) == SplitPieces(s, FindIter(ends, 1), 1)

\* Regex::splitn(n): n - 1 pieces of Split and then the rest of the text
RegexSplitN(s, ends, n) ==
    LET ms == FindIter(ends, 1)
    IN  IF Len(ms) < n THEN SplitPieces(s, ms, 1)
        ELSE SplitPieces(s, SubSeq(ms, 1, n - 1), 1)

\* Regex::replace: the first match replaced
RegexReplace(s, ends, rep) ==
    LET ms == FindIter(ends, 1)
    IN  IF ms = <<>> THEN s
        ELSE SubSeq(s, 1, ms[1][1] - 1) \o rep \o SubSeq(s, ms[1][2], Len(s))

\* Regex::replace_all
RegexReplaceAll(s, ends, rep) == join(RegexSplit(s, ends), rep)

(***************************************************************************)
(* The regular expressions of util.rs                                      *)
(***************************************************************************)
\* "\s*[.]\s+"
DOT_IN_SPACES(s) ==
    [i \in 1..Len(s) |->
        LET j == RunEnd(s, i, WhiteSpace)
        IN  IF j + 1 <= Len(s) /\ s[j] = "." /\ s[j + 1] \in WhiteSpace
            THEN RunEnd(s, j + 1, WhiteSpace)
            ELSE 0]

\* "\s+[.]"
SPACES_AND_DOT(s) ==
    [i \in 1..Len(s) |->
        LET j == RunEnd(s, i, WhiteSpace)
        IN  IF j > i /\ j <= Len(s) /\ s[j] = "." THEN j + 1 ELSE 0]

\* "[.]|\s+"
DOT_OR_SPACES(s) ==
    [i \in 1..Len(s) |->
        IF s[i] = "." THEN i + 1
        ELSE IF s[i] \in WhiteSpace THEN RunEnd(s, i, WhiteSpace)
        ELSE 0]

\* the class of the letter that closes LETTERS_AND_DOT_IN_SPACES: the source
\* writes s* (the letter s), not \s*
TrailingClass == {"s"}

\* "^\w+\s*[.]*s*"
LETTERS_AND_DOT_IN_SPACES(s) ==
    [i \in 1..Len(s) |->
        IF i = 1 /\ s[1] \in WordSet
        THEN RunEnd(s, RunEnd(s, RunEnd(s, RunEnd(s, 1, WordSet), WhiteSpace),
                              {"."}), TrailingClass)
        ELSE 0]

\* "\d+\s*"
DIGITS_AND_SPACES(s) ==
    [i \in 1..Len(s) |->
        IF s[i] \in DigitSet
        THEN RunEnd(s, RunEnd(s, i, DigitSet), WhiteSpace)
        ELSE 0]

\* the least number of whitespace characters of each \s{2,}
MinRun == 2

\* "\s{2,}\w*\s{2,}": the first \s{2,} takes the whole run when a word and a
\* second run of two follow it; otherwise the run itself is split in two
LETTERS_IN_SPACES(s) ==
    [i \in 1..Len(s) |->
        LET r == RunEnd(s, i, WhiteSpace)
            w == RunEnd(s, r, WordSet)
            e == RunEnd(s, w, WhiteSpace)
        IN  IF r - i >= MinRun /\ e - w >= MinRun THEN e
            ELSE IF r - i >= MinRun + MinRun THEN r
            ELSE 0]

\* "\s+"
SPACES(s) ==
    [i \in 1..Len(s) |->
        IF s[i] \in WhiteSpace THEN RunEnd(s, i, WhiteSpace) ELSE 0]

\* r"\s+|\s*:" (leftmost-first: a run of whitespace is taken by \s+ alone)
SPACEMATCH(s) ==
    [i \in 1..Len(s) |->
        IF s[i] \in WhiteSpace THEN RunEnd(s, i, WhiteSpace)
        ELSE IF s[i] = ":" THEN i + 1
        ELSE 0]

(***************************************************************************)
(* str::parse::<f64>.  A finite number is the pair <<m, e>> that stands for *)
(* m * 10^e, with m not a multiple of 10 (<<0, 0>> for zero), so that two   *)
(* spellings of one number ("2", "2.0", "20e-1") are equal values.          *)
(***************************************************************************)
RECURSIVE DigitsVal(_)
DigitsVal(ds) ==
    IF ds = <<>> THEN 0
    ELSE 10 * DigitsVal(SubSeq(ds, 1, Len(ds) - 1)) + DigitVal(ds[Len(ds)])

RECURSIVE Normal(_, _)
Normal(m, e) ==
    IF m = 0 THEN <<0, 0>>
    ELSE IF m % 10 = 0 THEN Normal(m \div 10, e + 1)
    ELSE <<m, e>>

INF == <<"i","n","f">>
INFINITY == <<"i","n","f","i","n","i","t","y">>
NAN == <<"n","a","n">>

ParseF64(t) ==
    LET sgn   == IF t # <<>> /\ t[1] \in {"+", "-"} THEN 1 ELSE 0
        neg   == sgn = 1 /\ t[1] = "-"
        body  == skip(t, sgn)
        n     == Len(body)
        a     == RunEnd(body, 1, DigitSet)
        dot   == a <= n /\ body[a] = "."
        b     == IF dot THEN RunEnd(body, a + 1, DigitSet) ELSE a
        ints  == SubSeq(body, 1, a - 1)
        fracs == IF dot THEN SubSeq(body, a + 1, b - 1) ELSE <<>>
        exp   == b <= n /\ body[b] \in {"e", "E"}
        es    == IF exp /\ b + 1 <= n /\ body[b + 1] \in {"+", "-"} THEN 1 ELSE 0
        eneg  == es = 1 /\ body[b + 1] = "-"
        c     == b + 1 + es
        d     == RunEnd(body, c, DigitSet)
        ev    == IF exp THEN DigitsVal(SubSeq(body, c, d - 1)) ELSE 0
        end   == IF exp THEN d ELSE b
        m     == DigitsVal(ints \o fracs)
    IN  IF to_lowercase(body) \in {INF, INFINITY}
        THEN Some(IF neg THEN "-inf" ELSE "inf")
        ELSE IF to_lowercase(body) = NAN THEN Some("NaN")
        ELSE IF Len(ints) + Len(fracs) >= 1 /\ (exp => d > c) /\ end = n + 1
        THEN Some(Normal(IF neg THEN 0 - m ELSE m,
                         (IF eneg THEN 0 - ev ELSE ev) - Len(fracs)))
        ELSE None

\* 0.0
Zero == <<0, 0>>

(***************************************************************************)
(* util.rs                                                                 *)
(***************************************************************************)
Map(f(_), seq) == [i \in 1..Len(seq) |-> f(seq[i])]

\* a variant of the filter that looks for `#` at the start of the untrimmed line
RECURSIVE FilterLinesUntrimmed(_)
FilterLinesUntrimmed(ls) ==
    IF ls = <<>> THEN <<>>
    ELSE IF starts_with(ls[1], <<"#">>) \/ Len(trim(ls[1])) < 1
         THEN FilterLinesUntrimmed(Tail(ls))
         ELSE <<trim(ls[1])>> \o FilterLinesUntrimmed(Tail(ls))

\* Removes lines that start with `#` and blank lines; the others trimmed
RECURSIVE FilterLines(_)
FilterLines(ls) ==
    IF ls = <<>> THEN <<>>
    ELSE IF starts_with(trim(ls[1]), <<"#">>) \/ Len(trim(ls[1])) < 1
         THEN FilterLines(Tail(ls))
         ELSE <<trim(ls[1])>> \o FilterLines(Tail(ls))

remove_comment(raw_str) == FilterLines(lines(raw_str))

\* the token SPACEMATCH.splitn(&x, 3).nth(1).unwrap_or("") of a line
MetaToken(x) == unwrap_or(nth(RegexSplitN(x, SPACEMATCH(x), 3), 1), <<>>)

YES == <<"y","e","s">>

\* Extracts version number and wrap mode: Ok(None), Ok(Some(<<v, w>>)) with v
\* an Option, or the panic of m[0] / m[1] on fewer than two lines
metadata(raw_str) ==
    LET secs == StrSplit(raw_str, <<"~">>)
    IN  IF ~nth(secs, 1).some THEN Ok(None)
        ELSE LET m == Map(MetaToken, take(skip(remove_comment(secs[2]), 1), 2))
             IN  IF Len(m) < 2 THEN Panic("index out of bounds")
                 ELSE Ok(Some(<<ParseF64(m[1]), to_lowercase(m[2]) = YES>>))

WellProp(unit, description, value) ==
    [unit |-> unit, description |-> description, value |-> value]

\* "   none   "
NonePadded == <<" "," "," ","n","o","n","e"," "," "," ">>
NONE == <<"n","o","n","e">>
UNKNOWN == <<"U","N","K","N","O","W","N">>

\* the normalized line
Root(line) == RegexReplace(line, DOT_IN_SPACES(line), NonePadded)

Title(line) ==
    LET root == Root(line)
    IN  trim(unwrap_or(nth(RegexSplitN(root, DOT_OR_SPACES(root), 2), 0), UNKNOWN))

Unit(line) ==
    LET root == Root(line)
        rest == unwrap_or(nth(RegexSplitN(root, LETTERS_AND_DOT_IN_SPACES(root), 2), 1),
                          <<>>)
        tok  == nth(RegexSplitN(rest, SPACES(rest), 2), 0)
    IN  IF ~tok.some THEN <<>>
        ELSE IF trim(tok.val) = NONE THEN <<>> ELSE tok.val

Description(line) ==
    LET root == Root(line)
        d    == trim(unwrap_or(nth(StrSplit(root, <<":">>), 1), <<>>))
    IN  RegexReplaceAll(d, DIGITS_AND_SPACES(d), <<>>)

Value(line) ==
    LET root  == Root(line)
        head  == unwrap_or(nth(StrSplit(root, <<":">>), 0), <<>>)
        value == RegexSplit(head, LETTERS_IN_SPACES(head))
    IN  IF Len(value) > 2 THEN trim(value[Len(value) - 1])
        ELSE trim(value[Len(value)])

\* HashMap::insert: a map is a function on the set of its keys
Insert(map, k, v) ==
    [t \in DOMAIN map \cup {k} |-> IF t = k THEN v ELSE map[t]]

RECURSIVE PropHash(_, _)
PropHash(ls, map) ==
    IF ls = <<>> THEN map
    ELSE PropHash(Tail(ls),
                  Insert(map, Title(ls[1]),
                         WellProp(Unit(ls[1]), Description(ls[1]), Value(ls[1]))))

\* the filtered lines of the section `key`, its header line dropped; None
\* when the key does not occur
PropertyLines(raw_str, key) ==
    LET after == nth(StrSplit(raw_str, key), 1)
    IN  IF ~after.some THEN None
        ELSE Some(skip(remove_comment(StrSplit(after.val, <<"~">>)[1]), 1))

\* Returns all the WellProp in a section
property(raw_str, key) ==
    LET ls == PropertyLines(raw_str, key)
    IN  IF ~ls.some THEN None ELSE Some(PropHash(ls.val, <<>>))

\* HashMap unwrap_or_default
EmptyMap == <<>>

(***************************************************************************)
(* lib.rs: the accessors of Las, as functions of the blob b               *)
(***************************************************************************)
KeyC == <<"~","C">>
KeyW == <<"~","W">>
KeyP == <<"~","P">>
KeyO == <<"~","O">>
KeyA == <<"~","A">>

version(b) ==
    LET m == metadata(b)
    IN  IF ~m.ok THEN m
        ELSE IF m.val.some /\ m.val.val[1].some THEN Ok(m.val.val[1].val)
        ELSE Panic("Invalid version")

wrap(b) ==
    LET m == metadata(b)
    IN  IF ~m.ok THEN m
        ELSE IF m.val.some THEN Ok(m.val.val[2])
        ELSE Ok(FALSE)

\* the filtered lines of the section between `key` and the next "~", header
\* line dropped (headers and other)
SectionLines(b, key) ==
    LET after == unwrap_or(nth(StrSplitN2(b, key), 1), <<>>)
    IN  skip(remove_comment(StrSplitN2(after, <<"~">>)[1]), 1)

HeaderOf(x) == RegexSplitN(trim(x), SPACES_AND_DOT(trim(x)), 2)[1]

headers(b) == Map(HeaderOf, SectionLines(b, KeyC))

\* one data line: SPACES.split(x.trim()) and the parse of each piece
ParseOrZero(v) == unwrap_or(ParseF64(trim(v)), Zero)
LineValues(x) == Map(ParseOrZero, RegexSplit(trim(x), SPACES(trim(x))))

RECURSIVE FlatMap(_)
FlatMap(ls) ==
    IF ls = <<>> THEN <<>> ELSE LineValues(ls[1]) \o FlatMap(Tail(ls))

\* the lines of the data section after its header line
DataLines(b) ==
    skip(lines(unwrap_or(nth(StrSplitN2(b, KeyA), 1), <<>>)), 1)

\* [T]::chunks(n), n > 0
RECURSIVE chunks(_, _)
chunks(vs, n) ==
    IF vs = <<>> THEN <<>>
    ELSE IF Len(vs) <= n THEN <<vs>>
    ELSE <<SubSeq(vs, 1, n)>> \o chunks(SubSeq(vs, n + 1, Len(vs)), n)

data(b) ==
    LET vs == FlatMap(DataLines(b))
        n  == Len(headers(b))
    IN  IF n = 0 THEN Panic("chunk size must be non-zero")
        ELSE Ok(chunks(vs, n))

\* Iterator::position
position(seq, x) ==
    LET I == {i \in 1..Len(seq) : seq[i] = x}
    IN  IF I = {} THEN None ELSE Some(Min(I) - 1)

\* a variant of column that passes over a row with no value at the position
\* instead of indexing it
column_skipping(b, col) ==
    LET index == position(headers(b), col)
        d     == data(b)
    IN  IF ~index.some THEN Panic("msg")
        ELSE IF ~d.ok THEN d
        ELSE Ok(LET long == SelectSeq(d.val, LAMBDA r : Len(r) > index.val)
                IN  [i \in 1..Len(long) |-> long[i][index.val + 1]])

column(b, col) ==
    LET index == position(headers(b), col)
        d     == data(b)
    IN  IF ~index.some THEN Panic("msg")
        ELSE IF ~d.ok THEN d
        ELSE IF \E i \in 1..Len(d.val) : Len(d.val[i]) <= index.val
             THEN Panic("index out of bounds")
             ELSE Ok([i \in 1..Len(d.val) |-> d.val[i][index.val + 1]])

column_count(b) == Ok(Len(headers(b)))

row_count(b) ==
    LET d == data(b) IN IF d.ok THEN Ok(Len(d.val)) ELSE d

curve_params(b) == unwrap_or(property(b, KeyC), EmptyMap)
well_info(b) == unwrap_or(property(b, KeyW), EmptyMap)
log_params(b) == unwrap_or(property(b, KeyP), EmptyMap)

\* the orders in which a HashMap of these keys can be iterated
Orders(keys) ==
    {o \in [1..Cardinality(keys) -> keys] : \A k \in keys : \E i \in DOMAIN o : o[i] = k}

\* headers_and_desc: the (title, description) pairs of the map m that
\* property(b, "~C") built, in the order `o` in which the HashMap yields them
headers_and_desc(m, o) == [i \in 1..Len(o) |-> <<o[i], m[o[i]].description>>]

other(b) == join(SectionLines(b, KeyO), <<"\n">>)

(***************************************************************************)
(* The documents: the contents of the file that Las::new reads.  A         *)
(* document is a version section, a well, a curve, a parameter and an      *)
(* other section and, last (as LAS requires), the data section; each may   *)
(* be absent.  The families below vary one section and keep the others.    *)
(***************************************************************************)
MaxGap == 4
MaxDataLines == 2

NL == <<"\n">>
Sp(n) == [i \in 1..n |-> " "]

RECURSIVE Concat(_)
Concat(ss) == IF ss = <<>> THEN <<>> ELSE ss[1] \o Concat(Tail(ss))

\* a section: its header line and its lines, each closed by a newline
Section(header, ls) ==
    header \o NL \o Concat([i \in 1..Len(ls) |-> ls[i] \o NL])

\* all sequences over S of length at most n
RECURSIVE SeqsUpTo(_, _)
SeqsUpTo(S, n) ==
    IF n = 0 THEN {<<>>}
    ELSE LET R == SeqsUpTo(S, n - 1)
         IN  R \cup {Append(r, x) : r \in {q \in R : Len(q) = n - 1}, x \in S}

\* the header lines: "~Version", "~Well", "~Curve", "~Parameter", "~Other"
HdrV == <<"~","V","e","r","s","i","o","n">>
HdrW == <<"~","W","e","l","l">>
HdrC == <<"~","C","u","r","v","e">>
HdrP == <<"~","P","a","r","a","m","e","t","e","r">>
HdrO == <<"~","O","t","h","e","r">>
\* "~A DEPT DT"
HdrA == <<"~","A"," ","D","E","P","T"," ","D","T">>
\* "VERS." and "WRAP."
VERS == <<"V","E","R","S",".">>
WRAP == <<"W","R","A","P",".">>

\* "2.0", "", "x", "12"
VersTokens == {<<"2",".","0">>, <<>>, <<"x">>, <<"1","2">>}
\* "NO", "YES", "Yes", "", "y"
WrapTokens == {<<"N","O">>, <<"Y","E","S">>, <<"Y","e","s">>, <<>>, <<"y">>}

\* "VERS.   2.0 :" and "WRAP.   NO :"
MetaLine(name, tok) == name \o Sp(3) \o tok \o <<" ", ":">>

VersionSections ==
    {Section(HdrV, <<>>)}
    \cup {Section(HdrV, <<MetaLine(VERS, v)>>) : v \in VersTokens}
    \cup {Section(HdrV, <<MetaLine(VERS, v), MetaLine(WRAP, w)>>) :
             v \in VersTokens, w \in WrapTokens}
    \* a comment line and a blank line before the two lines
    \cup {Section(HdrV, <<<<"#","c">>, <<" ">>, MetaLine(VERS, <<"2",".","0">>), MetaLine(WRAP, <<"Y","E","S">>)>>)}

StdV == Section(HdrV, <<MetaLine(VERS, <<"2",".","0">>), MetaLine(WRAP, <<"N","O">>)>>)
\* "STRT.M 1670.0 :START" and "STOP.M 1669.5 :STOP"
WellLines ==
    <<<<"S","T","R","T",".","M"," ","1","6","7","0",".","0"," ",":","S","T","A","R","T">>,
      <<"S","T","O","P",".","M"," ","1","6","6","9",".","5"," ",":","S","T","O","P">>>>
StdW == Section(HdrW, WellLines)
\* "DEPT.M :DEPTH" and "DT .US :SONIC"
CurveLines == <<<<"D","E","P","T",".","M"," ",":","D","E","P","T","H">>, <<"D","T"," ",".","U","S"," ",":","S","O","N","I","C">>>>
StdC == Section(HdrC, CurveLines)
\* "MUD . GEL CHEM :MUD TYPE"
StdP == Section(HdrP, <<<<"M","U","D"," ","."," ","G","E","L"," ","C","H","E","M"," ",":","M","U","D"," ","T","Y","P","E">>>>)
\* "Note one", "#c", "more"
StdO == Section(HdrO, <<<<"N","o","t","e"," ","o","n","e">>, <<"#","c">>, <<"m","o","r","e">>>>)
\* "1.5 2" and "3 -4"
AsciiLines == <<<<"1",".","5"," ","2">>, <<"3"," ","-","4">>>>
StdA == Section(HdrA, AsciiLines)

\* the version section varies; also a document that starts with the well
\* section and a document without any section
VersionFamily ==
    {v \o StdW \o StdC \o StdA : v \in VersionSections}
    \cup {StdW \o StdC \o StdA, <<"#","c">> \o NL}

\* which of the optional sections are present
AbsentFamily ==
    {StdV \o (IF w THEN StdW ELSE <<>>) \o (IF c THEN StdC ELSE <<>>)
          \o (IF p THEN StdP ELSE <<>>) \o (IF o THEN StdO ELSE <<>>)
          \o (IF a THEN StdA ELSE <<>>) :
        w \in BOOLEAN, c \in BOOLEAN, p \in BOOLEAN, o \in BOOLEAN, a \in BOOLEAN}

\* "STRT" and no mnemonic at all (the line begins with its dot)
Mnemonics == {<<"S","T","R","T">>, <<>>}
\* "", "m", "s", "OHMM"
Units == {<<>>, <<"m">>, <<"s">>, <<"O","H","M","M">>}
\* "", "1.5", "A B", "7"
Values == {<<>>, <<"1",".","5">>, <<"A"," ","B">>, <<"7">>}
\* "D"
Desc == <<"D">>

\* MNEMONIC .UNIT VALUE :DESCRIPTION with whitespace runs of g1, g2 and g3
PropLine(mn, g1, u, g2, v, g3, d) ==
    mn \o Sp(g1) \o <<".">> \o u \o Sp(g2) \o v \o Sp(g3) \o <<":">> \o d

PropLines ==
    {PropLine(mn, g1, u, g2, v, g3, Desc) :
        mn \in Mnemonics, g1 \in {0, 1}, u \in Units, g2 \in {1, MaxGap},
        v \in {<<"1",".","5">>}, g3 \in {1}}
    \cup {PropLine(<<"S","T","R","T">>, g1, u, g2, v, g3, Desc) :
        g1 \in {0, 1}, u \in {<<"m">>}, g2 \in {1, MinRun, MaxGap}, v \in Values,
        g3 \in {0, 1, MinRun}}

\* "5 TOP", "RUN 2 LOG", "A:B"
Descriptions ==
    {<<"5"," ","T","O","P">>, <<"R","U","N"," ","2"," ","L","O","G">>, <<"A",":","B">>}

\* "STRT.M    1.5 :" and a description
DescLines ==
    {PropLine(<<"S","T","R","T">>, 0, <<"M">>, MaxGap, <<"1",".","5">>, 1, d) :
        d \in Descriptions}

\* the well section is one line of PropLines or of DescLines
PropFamily ==
    {StdV \o Section(HdrW, <<l>>) \o StdC \o StdA : l \in PropLines \cup DescLines}

\* "", "1.5 x", " 3\t-4  5 "
DataLinePool == {<<>>, <<"1",".","5"," ","x">>, <<" ","3","\t","-","4"," "," ","5"," ">>}

\* absent, or with the first n lines of CurveLines
CurveSections ==
    {<<>>} \cup {Section(HdrC, SubSeq(CurveLines, 1, n)) : n \in 1..Len(CurveLines)}

\* no data section, or one with at most MaxDataLines lines of the pool
DataSections ==
    {<<>>} \cup {Section(HdrA, ls) : ls \in SeqsUpTo(DataLinePool, MaxDataLines)}

\* also a curve section without lines
DataFamily ==
    {StdV \o c \o a : c \in CurveSections, a \in DataSections}
    \cup {StdV \o Section(HdrC, <<>>) \o StdA}

\* every header line is its two-character key alone: "~V", "~W", "~C", "~A"
BareFamily ==
    {Section(<<"~","V">>, <<MetaLine(VERS, <<"2",".","0">>), MetaLine(WRAP, <<"N","O">>)>>)
        \o Section(KeyW, WellLines) \o Section(KeyC, CurveLines)
        \o Section(KeyA, AsciiLines)}

Documents ==
    VersionFamily \cup AbsentFamily \cup PropFamily \cup DataFamily \cup BareFamily

\* the names column() is asked for: "DEPT", "DT", "XX"
ColumnNames == {<<"D","E","P","T">>, <<"D","T">>, <<"X","X">>}

(***************************************************************************)
(* The state machine.  Las::new reads the file into blob; every accessor   *)
(* borrows the Las, parses blob anew and returns; column takes the Las by  *)
(* value, after which it is gone; a panic ends the run.                    *)
(***************************************************************************)
VARIABLES
    file,    \* the contents of the file that Las::new read
    blob,    \* Las.blob
    alive,   \* the Las is owned and no call has panicked
    op,      \* the accessor called last ("new" after construction)
    arg,     \* its argument (column's name), <<>> for the others
    res,     \* what it returned: Ok(v) or Panic(msg)
    again    \* the call before it was the same accessor with the same argument

vars == <<file, blob, alive, op, arg, res, again>>

Init ==
    /\ file \in Documents
    /\ blob = file
    /\ alive = TRUE
    /\ op = "new"
    /\ arg = <<>>
    /\ res = Ok(<<>>)
    /\ again = FALSE

\* a call of accessor `name` with argument `a` that returns or panics with r
\* and leaves the Las to the caller if `kept`
Call(name, a, r, kept) ==
    /\ alive
    /\ op' = name
    /\ arg' = a
    /\ res' = r
    /\ alive' = (kept /\ r.ok)
    /\ again' = (op = name /\ arg = a)
    /\ UNCHANGED <<file, blob>>

Version == Call("version", <<>>, version(blob), TRUE)
Wrap == Call("wrap", <<>>, wrap(blob), TRUE)
Headers == Call("headers", <<>>, Ok(headers(blob)), TRUE)
Data == Call("data", <<>>, data(blob), TRUE)
Column == \E col \in ColumnNames : Call("column", col, column(blob, col), FALSE)
ColumnCount == Call("column_count", <<>>, column_count(blob), TRUE)
RowCount == Call("row_count", <<>>, row_count(blob), TRUE)
\* the HashMap of property() is built anew by every call and iterated in the
\* order of its own hasher: any order of the entries
HeadersAndDesc ==
    \E o \in Orders(DOMAIN curve_params(blob)) :
        Call("headers_and_desc", <<>>, Ok(headers_and_desc(curve_params(blob), o)), TRUE)
CurveParams == Call("curve_params", <<>>, Ok(curve_params(blob)), TRUE)
WellInfo == Call("well_info", <<>>, Ok(well_info(blob)), TRUE)
LogParams == Call("log_params", <<>>, Ok(log_params(blob)), TRUE)
\* a variant of other() that takes the text out of the buffer as it returns it
OtherTaking ==
    /\ alive
    /\ op' = "other"
    /\ arg' = <<>>
    /\ res' = Ok(other(blob))
    /\ alive' = TRUE
    /\ again' = (op = "other")
    /\ blob' = <<>>
    /\ file' = file
Other == Call("other", <<>>, Ok(other(blob)), TRUE)

Next ==
    \/ Version
    \/ Wrap
    \/ Headers
    \/ Data
    \/ Column
    \/ ColumnCount
    \/ RowCount
    \/ HeadersAndDesc
    \/ CurveParams
    \/ WellInfo
    \/ LogParams
    \/ Other

Spec == Init /\ [][Next]_vars

(***************************************************************************)
(* remove_comment on its own: the function is applied to a text and then   *)
(* to its own output, joined by newlines.  The text is at most             *)
(* MaxFilterLines lines of a pool, with or without a final newline.        *)
(***************************************************************************)
MaxFilterLines == 3

\* "", " ", "#c", " \t# c", "a", " a b\t", "a#b"
FilterLinePool ==
    {<<>>, <<" ">>, <<"#","c">>, <<" ","\t","#"," ","c">>, <<"a">>,
     <<" ","a"," ","b","\t">>, <<"a","#","b">>}

FilterInputs ==
    LET T == {join(ls, NL) : ls \in SeqsUpTo(FilterLinePool, MaxFilterLines)}
    IN  T \cup {t \o NL : t \in T}

InitFilter ==
    /\ file \in FilterInputs
    /\ blob = file
    /\ alive = TRUE
    /\ op = "new"
    /\ arg = <<>>
    /\ res = Ok(<<>>)
    /\ again = FALSE

RemoveComment ==
    /\ op = "new"
    /\ op' = "remove_comment"
    /\ arg' = blob
    /\ res' = Ok(remove_comment(blob))
    /\ again' = FALSE
    /\ UNCHANGED <<file, blob, alive>>

\* remove_comment of the lines it returned, joined by "\n"
RemoveCommentAgain ==
    /\ op = "remove_comment"
    /\ ~again
    /\ arg' = join(res.val, NL)
    /\ res' = Ok(remove_comment(join(res.val, NL)))
    /\ again' = TRUE
    /\ UNCHANGED <<file, blob, alive, op>>

NextFilter ==
    \/ RemoveComment
    \/ RemoveCommentAgain

SpecFilter == InitFilter /\ [][NextFilter]_vars

(***************************************************************************)
(* The LAS reading of a document, against which the accessors' results are *)
(* stated: a section is the lines between a line that begins with "~" and  *)
(* the section's letter and the next line that begins with "~"; its        *)
(* entries are its lines that are neither blank nor comments; a field      *)
(* line is MNEMONIC.UNIT VALUE :DESCRIPTION.                               *)
(***************************************************************************)
\* the index after the run of characters outside the class C that starts at i
RECURSIVE TokenEnd(_, _, _)
TokenEnd(s, i, C) ==
    IF i > Len(s) \/ s[i] \in C THEN i ELSE TokenEnd(s, i + 1, C)

\* the maximal runs of characters outside the class C from i on, in order
RECURSIVE TokensFrom(_, _, _)
TokensFrom(s, i, C) ==
    LET a == RunEnd(s, i, C)
    IN  IF a > Len(s) THEN <<>>
        ELSE <<SubSeq(s, a, TokenEnd(s, a, C) - 1)>> \o TokensFrom(s, TokenEnd(s, a, C), C)

\* the whitespace-separated tokens of a text
Words(s) == TokensFrom(s, 1, WhiteSpace)

HeaderIndex(ls, L) ==
    LET I == {i \in 1..Len(ls) : starts_with(ls[i], <<"~", L>>)}
    IN  IF I = {} THEN 0 ELSE Min(I)

SectionEnd(ls, h) ==
    LET J == {j \in (h + 1)..Len(ls) : starts_with(ls[j], <<"~">>)}
    IN  IF J = {} THEN Len(ls) ELSE Min(J) - 1

HasSection(doc, L) == HeaderIndex(lines(doc), L) # 0

\* the lines after the header line of section L, <<>> if there is none
RawSection(doc, L) ==
    LET ls == lines(doc)
        h  == HeaderIndex(ls, L)
    IN  IF h = 0 THEN <<>> ELSE SubSeq(ls, h + 1, SectionEnd(ls, h))

IsEntry(l) == trim(l) # <<>> /\ trim(l)[1] # "#"
Entries(doc, L) == SelectSeq(RawSection(doc, L), IsEntry)

\* the value token of a version or wrap line: its second token
LasField2(l) ==
    LET ts == TokensFrom(l, 1, WhiteSpace \cup {":"})
    IN  IF Len(ts) >= 2 THEN ts[2] ELSE <<>>

\* the tokens of the data section, in document order
DataTokens(doc) == Words(join(RawSection(doc, "A"), <<"\n">>))
TokenValue(t) == IF ParseF64(t).some THEN ParseF64(t).val ELSE Zero

\* the fields of a line MNEMONIC.UNIT VALUE :DESCRIPTION
DotAt(l) == FindStr(l, <<".">>, 1)
ColonAt(l) == FindStr(l, <<":">>, 1)
UnitEnd(l) == TokenEnd(l, DotAt(l) + 1, WhiteSpace \cup {":"})
IsFieldLine(l) == DotAt(l) # 0 /\ ColonAt(l) > DotAt(l)
LasMnemonic(l) == trim(SubSeq(l, 1, DotAt(l) - 1))
LasUnit(l) == SubSeq(l, DotAt(l) + 1, UnitEnd(l) - 1)
LasValue(l) == trim(SubSeq(l, UnitEnd(l), ColonAt(l) - 1))

\* the text after the first colon, trimmed, without its leading digits and spaces
LasDescription(l) ==
    LET d == trim(SubSeq(l, ColonAt(l) + 1, Len(l)))
    IN  SubSeq(d, RunEnd(d, 1, DigitSet \cup {" "}), Len(d))

\* the field lines of the well section that name a mnemonic
WellFields(doc) ==
    {l \in Range(Entries(doc, "W")) : IsFieldLine(l) /\ LasMnemonic(l) # <<>>}

PropertyOps == {"well_info", "curve_params", "log_params"}

(***************************************************************************)
(* C1.  version() fails whenever the document has no version section or    *)
(* the second token of the first entry of the version section does not     *)
(* parse as a number, and returns exactly that number whenever it does.    *)
(* The code reads the text after the first "~" whatever section it is,     *)
(* and indexes the wrap line without looking whether there is one.         *)
(***************************************************************************)
C1_VersionFailsOrReturnsToken ==
    op = "version" =>
        LET es  == Entries(file, "V")
            tok == IF es = <<>> THEN <<>> ELSE LasField2(es[1])
        IN  IF ~HasSection(file, "V") \/ ~ParseF64(tok).some
            THEN ~res.ok
            ELSE res = Ok(ParseF64(tok).val)

(***************************************************************************)
(* C2.  wrap() never fails: it returns true exactly when the value token   *)
(* of the second entry of the version section is "yes" in any case, and    *)
(* false otherwise, a missing wrap line or version section included.       *)
(***************************************************************************)
C2_WrapNeverFails ==
    op = "wrap" =>
        LET es == Entries(file, "V")
        IN  res = Ok(Len(es) >= 2 /\ to_lowercase(LasField2(es[2])) = YES)

(***************************************************************************)
(* C3.  When the curve section has an entry: headers().len() is            *)
(* column_count(), row_count() is data().len(), every row of data() has    *)
(* column_count() values except that the final row may be shorter (not     *)
(* empty), and only when the number of data tokens is not a multiple of    *)
(* column_count().                                                         *)
(***************************************************************************)
C3_RowsHaveColumnCountValues ==
    (op = "data" /\ Entries(file, "C") # <<>>) =>
        /\ res.ok
        /\ column_count(blob) = Ok(Len(headers(blob)))
        /\ row_count(blob) = Ok(Len(res.val))
        /\ LET n    == Len(headers(blob))
               rows == res.val
           IN  /\ \A i \in 1..(Len(rows) - 1) : Len(rows[i]) = n
               /\ rows # <<>> =>
                    /\ Len(rows[Len(rows)]) \in 1..n
                    /\ Len(rows[Len(rows)]) < n => Len(DataTokens(file)) % n # 0

(***************************************************************************)
(* C4 as stated.  column(name) fails when name is no element of            *)
(* headers(); otherwise it returns row_count() values, the i-th being      *)
(* data()[i][p] for the first position p of name in headers().  Stated on  *)
(* the documents whose data section has no blank line.                     *)
(***************************************************************************)
C4_ColumnReturnsEveryRow ==
    (op = "column" /\ \A l \in Range(RawSection(file, "A")) : trim(l) # <<>>) =>
        LET p == position(headers(blob), arg)
            d == data(blob)
        IN  IF ~p.some THEN ~res.ok
            ELSE /\ res.ok
                 /\ Ok(Len(res.val)) = row_count(blob)
                 /\ \A i \in 1..Len(res.val) :
                        /\ Len(d.val[i]) > p.val
                        /\ res.val[i] = d.val[i][p.val + 1]

(***************************************************************************)
(* C4 amended.  column(name) fails when name is no element of headers()    *)
(* and when a row of data() (the short final row) has no value at the      *)
(* position p of name; otherwise it returns row_count() values, the i-th   *)
(* being data()[i][p].                                                     *)
(***************************************************************************)
C4_ColumnReturnsEveryRowOrFails ==
    op = "column" =>
        LET p == position(headers(blob), arg)
            d == data(blob)
        IN  IF ~p.some THEN ~res.ok
            ELSE IF \E i \in 1..Len(d.val) : Len(d.val[i]) <= p.val THEN ~res.ok
            ELSE /\ res.ok
                 /\ Ok(Len(res.val)) = row_count(blob)
                 /\ \A i \in 1..Len(res.val) : res.val[i] = d.val[i][p.val + 1]

\* column("DT") has returned the second value of two full rows
C4_Witness ==
    /\ op = "column"
    /\ arg = <<"D","T">>
    /\ res.ok
    /\ Len(res.val) = 2
    /\ position(headers(blob), arg) = Some(1)

(***************************************************************************)
(* C5.  An absent optional section makes no accessor fail: the accessors   *)
(* of the absent section return empty collections, other() the empty       *)
(* string, and data(), row_count() and column_count() return a value,      *)
(* also when the curve section is absent.                                  *)
(***************************************************************************)
C5_AbsentSectionsNeverFail ==
    /\ (op = "well_info" /\ ~HasSection(file, "W")) => res = Ok(EmptyMap)
    /\ (op = "curve_params" /\ ~HasSection(file, "C")) => res = Ok(EmptyMap)
    /\ (op = "log_params" /\ ~HasSection(file, "P")) => res = Ok(EmptyMap)
    /\ (op = "headers" /\ ~HasSection(file, "C")) => res = Ok(<<>>)
    /\ (op = "headers_and_desc" /\ ~HasSection(file, "C")) => res = Ok(<<>>)
    /\ (op = "other" /\ ~HasSection(file, "O")) => res = Ok(<<>>)
    /\ (/\ op \in {"data", "row_count", "column_count"}
        /\ \E L \in {"W", "C", "P", "O"} : ~HasSection(file, L)) => res.ok

(***************************************************************************)
(* C6.  For a well line MNEMONIC .UNIT VALUE :DESCRIPTION whose fields are *)
(* separated by runs of one or more whitespace characters, the value of    *)
(* the extracted property is VALUE, trimmed (empty when there is none).    *)
(***************************************************************************)
C6_ValueIsTheValueField ==
    op = "well_info" =>
        \A l \in WellFields(file) :
            (LasUnit(l) # <<>> /\ l[ColonAt(l) - 1] \in WhiteSpace) =>
                /\ res.ok
                /\ LasMnemonic(l) \in DOMAIN res.val
                /\ res.val[LasMnemonic(l)].value = LasValue(l)

(***************************************************************************)
(* C7 as stated.  No call of a borrowing accessor changes the buffer, and  *)
(* a call returns what the call before it returned when that was the same  *)
(* accessor with the same argument.                                        *)
(***************************************************************************)
C7_SameResultEveryCall ==
    [][/\ blob' = blob
       /\ (op' = op /\ arg' = arg) => res' = res]_vars

(***************************************************************************)
(* C7 amended.  No call changes the buffer; a repeated call returns the    *)
(* same result, except that headers_and_desc() returns the same pairs in   *)
(* an order that may differ from call to call.                             *)
(***************************************************************************)
C7_SameResultUpToOrder ==
    [][/\ blob' = blob
       /\ (op' = op /\ arg' = arg) =>
             IF op' = "headers_and_desc"
             THEN /\ res'.ok
                  /\ Len(res'.val) = Len(res.val)
                  /\ Range(res'.val) = Range(res.val)
             ELSE res' = res]_vars

\* headers_and_desc() has been called twice in a row on a buffer with two curves
C7_Witness ==
    /\ again
    /\ op = "headers_and_desc"
    /\ Len(res.val) = 2
    /\ blob = file

(***************************************************************************)
(* C8.  The rows of data(), concatenated, are one value per whitespace-    *)
(* separated token of the lines after the data header line, in order: the  *)
(* number the token parses to, 0.0 if it does not parse; a blank line      *)
(* contributes nothing.                                                    *)
(***************************************************************************)
C8_OneValuePerToken ==
    (op = "data" /\ res.ok) =>
        Concat(res.val) = Map(TokenValue, DataTokens(file))

(***************************************************************************)
(* C9.  Every key of the mapping that well_info(), curve_params() and      *)
(* log_params() return is a non-empty string.                              *)
(***************************************************************************)
C9_TitlesAreNonEmpty ==
    op \in PropertyOps => (res.ok /\ \A k \in DOMAIN res.val : k # <<>>)

(***************************************************************************)
(* C10.  For a well line MNEMONIC.UNIT ... the unit of the extracted       *)
(* property is the run of non-whitespace characters directly after the     *)
(* dot, whatever it starts with, and the empty string exactly when the dot *)
(* is followed by whitespace.                                              *)
(***************************************************************************)
C10_UnitIsTheUnitField ==
    op = "well_info" =>
        \A l \in WellFields(file) :
            l[DotAt(l) - 1] \notin WhiteSpace =>
                /\ res.ok
                /\ LasMnemonic(l) \in DOMAIN res.val
                /\ res.val[LasMnemonic(l)].unit = LasUnit(l)

(***************************************************************************)
(* C11.  For a well line, the description of the extracted property is the *)
(* whole text after the first colon of the line, trimmed, without its      *)
(* leading run of digits and spaces: later digits and the text after a     *)
(* second colon are kept.                                                  *)
(***************************************************************************)
C11_DescriptionIsTextAfterColon ==
    op = "well_info" =>
        \A l \in WellFields(file) :
            /\ res.ok
            /\ LasMnemonic(l) \in DOMAIN res.val
            /\ res.val[LasMnemonic(l)].description = LasDescription(l)

(***************************************************************************)
(* C12.  remove_comment returns, in their order, exactly the lines of its  *)
(* input whose trimmed form is not empty and does not start with "#", each *)
(* without its leading and trailing whitespace; so no returned line is     *)
(* empty, starts with "#" or has whitespace around it, and applied to its  *)
(* own output joined by newlines it returns the same lines (the join of    *)
(* non-empty lines without newlines determines the lines).                 *)
(***************************************************************************)
\* s without the whitespace before its first and after its last other character
Stripped(s) ==
    LET I == {i \in 1..Len(s) : s[i] \notin WhiteSpace}
    IN  IF I = {} THEN <<>>
        ELSE SubSeq(s, CHOOSE i \in I : \A j \in I : i <= j,
                       CHOOSE i \in I : \A j \in I : i >= j)

IsKept(l) == Stripped(l) # <<>> /\ Stripped(l)[1] # "#"

ExpectedLines(s) ==
    LET ls == SelectSeq(TokensFrom(s, 1, {"\n"}), IsKept)
    IN  [i \in 1..Len(ls) |-> Stripped(ls[i])]

C12_FilterKeepsTrimmedLines ==
    op = "remove_comment" =>
        /\ res = Ok(ExpectedLines(arg))
        /\ \A i \in 1..Len(res.val) :
              /\ res.val[i] # <<>>
              /\ res.val[i][1] \notin WhiteSpace \cup {"#"}
              /\ res.val[i][Len(res.val[i])] \notin WhiteSpace
        /\ again => join(res.val, NL) = arg

\* the filter has been applied to its own output, two lines kept of a text
\* from which it removed or trimmed something
C12_Witness ==
    /\ op = "remove_comment"
    /\ again
    /\ Len(res.val) = 2
    /\ arg # file
    /\ \E i \in 1..Len(file) : file[i] = "#"

(***************************************************************************)
(* C13.  When the lines of the curve section have pairwise distinct        *)
(* mnemonics, the strings of headers() are the keys of curve_params() and  *)
(* column_count() is the number of its entries, whether a line writes the  *)
(* dot directly after the mnemonic or after whitespace.                    *)
(***************************************************************************)
CurveFields(doc) == Entries(doc, "C")

DistinctMnemonics(ls) ==
    /\ \A i \in 1..Len(ls) : IsFieldLine(ls[i])
    /\ \A i, j \in 1..Len(ls) : LasMnemonic(ls[i]) = LasMnemonic(ls[j]) => i = j

C13_HeadersAreCurveKeys ==
    (op = "headers" /\ DistinctMnemonics(CurveFields(file))) =>
        /\ res.ok
        /\ Range(res.val) = DOMAIN curve_params(blob)
        /\ column_count(blob) = Ok(Cardinality(DOMAIN curve_params(blob)))

====
